---------------------------- MODULE Spec2Model ----------------------------
(***************************************************************************)
(* Model of string_format.py: ANSI escape-code string formatting.          *)
(*                                                                         *)
(* A Python str is a sequence of one-character strings; the control byte   *)
(* 0x1B is the single element ESC.  A Python value is a record with a type *)
(* tag; the result of a call is either a str or a raised exception.        *)
(* The state is the last call made to the module and what it returned.     *)
(***************************************************************************)
EXTENDS Integers, Sequences, FiniteSets, TLC

VARIABLES fn, string, argv, flags, ret

vars == <<fn, string, argv, flags, ret>>

-----------------------------------------------------------------------------
(* Bounds of the explored inputs.                                          *)

\* longest text handed to string_formatter
MaxTextLen == 1
\* integers handed to the colour resolvers range over -MaxInt..MaxInt
MaxInt == 256

-----------------------------------------------------------------------------
(* Python values and results.                                              *)

ESC == "ESC"

PyNone == [tag |-> "NoneType", s |-> <<>>, n |-> 0, t |-> <<>>]
PyStr(s) == [tag |-> "str", s |-> s, n |-> 0, t |-> <<>>]
PyInt(n) == [tag |-> "int", s |-> <<>>, n |-> n, t |-> <<>>]
\* a float is carried with the text str() gives for it; it is never zero here
PyFloat(s) == [tag |-> "float", s |-> s, n |-> 0, t |-> <<>>]
PyTuple(t) == [tag |-> "tuple", s |-> <<>>, n |-> 0, t |-> t]

Ok(s) == [kind |-> "str", val |-> s]
Raise(e) == [kind |-> e, val |-> <<>>]

\* bool(v)
Truthy(v) ==
    CASE v.tag = "NoneType" -> FALSE
      [] v.tag = "str" -> v.s # <<>>
      [] v.tag = "int" -> v.n # 0
      [] v.tag = "tuple" -> v.t # <<>>
      [] OTHER -> TRUE

\* x and <call> or "": r is the result of the call, made only when x is truthy
AndCallOr(x, r) ==
    IF ~Truthy(x) THEN Ok(<<>>)
    ELSE IF r.kind # "str" THEN r
    ELSE IF r.val = <<>> THEN Ok(<<>>)
    ELSE r

\* flag and s or ""
AndOr(flag, s) == IF flag /\ s # <<>> THEN s ELSE <<>>

RECURSIVE join(_)
\* "".join(parts)
join(parts) ==
    IF parts = <<>> THEN <<>> ELSE Head(parts) \o join(Tail(parts))

DigitChar == <<"0", "1", "2", "3", "4", "5", "6", "7", "8", "9">>

RECURSIVE Digits(_)
Digits(n) ==
    IF n < 10 THEN <<DigitChar[n + 1]>>
    ELSE Digits(n \div 10) \o <<DigitChar[(n % 10) + 1]>>

\* str(n) of an int
IntToStr(n) == IF n < 0 THEN <<"-">> \o Digits(-n) ELSE Digits(n)

\* what an f-string replacement field {v} renders (str(v)), for the values
\* that occur as colour arguments and tuple elements
PyFormat(v) ==
    CASE v.tag = "int" -> IntToStr(v.n)
      [] v.tag = "str" -> v.s
      [] v.tag = "float" -> v.s
      [] v.tag = "NoneType" -> <<"N", "o", "n", "e">>

\* a dict display: a later item with an equal key replaces the earlier one
DictDisplay(items) ==
    [k \in {items[i][1] : i \in DOMAIN items} |->
        items[CHOOSE i \in DOMAIN items :
                /\ items[i][1] = k
                /\ \A j \in DOMAIN items : items[j][1] = k => j <= i][2]]

-----------------------------------------------------------------------------
(* The colour names written in the source.                                 *)

black == <<"b", "l", "a", "c", "k">>
red == <<"r", "e", "d">>
green == <<"g", "r", "e", "e", "n">>
yellow == <<"y", "e", "l", "l", "o", "w">>
blue == <<"b", "l", "u", "e">>
purple == <<"p", "u", "r", "p", "l", "e">>
cyan == <<"c", "y", "a", "n">>
white == <<"w", "h", "i", "t", "e">>
bright_black == <<"b", "r", "i", "g", "h", "t", "_", "b", "l", "a", "c", "k">>
bright_red == <<"b", "r", "i", "g", "h", "t", "_", "r", "e", "d">>
bright_green == <<"b", "r", "i", "g", "h", "t", "_", "g", "r", "e", "e", "n">>
bright_yellow == <<"b", "r", "i", "g", "h", "t", "_", "y", "e", "l", "l", "o", "w">>
bright_blue == <<"b", "r", "i", "g", "h", "t", "_", "b", "l", "u", "e">>
bright_purple == <<"b", "r", "i", "g", "h", "t", "_", "p", "u", "r", "p", "l", "e">>
bright_cyan == <<"b", "r", "i", "g", "h", "t", "_", "c", "y", "a", "n">>
bright_white == <<"b", "r", "i", "g", "h", "t", "_", "w", "h", "i", "t", "e">>

-----------------------------------------------------------------------------
(* Foreground resolution.                                                  *)

\* color_fg with the codes of purple and cyan exchanged
color_fg_items_purple_cyan ==
    << <<black, 30>>, <<red, 31>>, <<green, 32>>, <<yellow, 33>>,
       <<blue, 34>>, <<purple, 36>>, <<cyan, 35>>, <<white, 37>>,
       <<bright_black, 90>>, <<bright_red, 91>>, <<bright_green, 92>>,
       <<bright_yellow, 93>>, <<bright_blue, 94>>, <<bright_purple, 95>>,
       <<bright_cyan, 96>>, <<bright_white, 97>>  >>

color_fg_items ==
    << <<black, 30>>, <<red, 31>>, <<green, 32>>, <<yellow, 33>>,
       <<blue, 34>>, <<purple, 35>>, <<cyan, 36>>, <<white, 37>>,
       <<bright_black, 90>>, <<bright_red, 91>>, <<bright_green, 92>>,
       <<bright_yellow, 93>>, <<bright_blue, 94>>, <<bright_purple, 95>>,
       <<bright_cyan, 96>>, <<bright_white, 97>>  >>

color_fg == DictDisplay(color_fg_items)

\* the undecorated function: any type without a registered implementation
escape_codes_color_fg_default(color) ==
    Ok(<<ESC, "[">> \o PyFormat(color) \o <<"m">>)

escape_codes_color_fg_str(color) ==
    IF color.s \notin DOMAIN color_fg THEN Raise("KeyError")
    ELSE Ok(<<ESC, "[">> \o IntToStr(color_fg[color.s]) \o <<"m">>)

escape_codes_color_fg_tuple(color) ==
    IF \E i \in 0..2 : i >= Len(color.t) THEN Raise("IndexError")
    ELSE Ok(<<ESC, "[", "3", "8", ";", "2", ";">> \o PyFormat(color.t[1])
            \o <<";">> \o PyFormat(color.t[2])
            \o <<";">> \o PyFormat(color.t[3]) \o <<"m">>)

\* the palette index forced into 0..255
escape_codes_color_fg_int_clamped(color) ==
    LET n == IF color.n < 0 THEN 0 ELSE IF color.n > 255 THEN 255 ELSE color.n
    IN  Ok(<<ESC, "[", "3", "8", ";", "5", ";">> \o IntToStr(n) \o <<"m">>)

escape_codes_color_fg_int(color) ==
    Ok(<<ESC, "[", "3", "8", ";", "5", ";">> \o IntToStr(color.n) \o <<"m">>)

\* singledispatch on the type of the argument
escape_codes_color_fg(color) ==
    CASE color.tag = "str" -> escape_codes_color_fg_str(color)
      [] color.tag = "tuple" -> escape_codes_color_fg_tuple(color)
      [] color.tag = "int" -> escape_codes_color_fg_int(color)
      [] OTHER -> escape_codes_color_fg_default(color)

foreground_color(args) ==
    IF Len(args) = 1 THEN escape_codes_color_fg(args[1])
    ELSE IF Len(args) = 3 /\ \A i \in 1..3 : args[i].tag = "int"
         THEN escape_codes_color_fg(PyTuple(args))
    ELSE Raise("TypeError")

-----------------------------------------------------------------------------
(* Background resolution.                                                  *)

color_bg_items ==
    << <<black, 40>>, <<red, 41>>, <<green, 42>>, <<yellow, 43>>,
       <<blue, 44>>, <<purple, 45>>, <<cyan, 46>>, <<white, 47>>,
       <<black, 100>>, <<red, 101>>, <<green, 102>>, <<yellow, 103>>,
       <<blue, 104>>, <<purple, 105>>, <<cyan, 106>>, <<white, 107>>  >>

color_bg == DictDisplay(color_bg_items)

escape_codes_color_bg_default(color) ==
    Ok(<<ESC, "[">> \o PyFormat(color) \o <<"m">>)

\* a name missing from color_bg rendered as it stands instead of raising
escape_codes_color_bg_str_fallback(color) ==
    IF color.s \notin DOMAIN color_bg THEN Ok(<<ESC, "[">> \o color.s \o <<"m">>)
    ELSE Ok(<<ESC, "[">> \o IntToStr(color_bg[color.s]) \o <<"m">>)

escape_codes_color_bg_str(color) ==
    IF color.s \notin DOMAIN color_bg THEN Raise("KeyError")
    ELSE Ok(<<ESC, "[">> \o IntToStr(color_bg[color.s]) \o <<"m">>)

\* color[1] written where color[2] belongs
escape_codes_color_bg_tuple_repeat(color) ==
    IF \E i \in 0..1 : i >= Len(color.t) THEN Raise("IndexError")
    ELSE Ok(<<ESC, "[", "4", "8", ";", "2", ";">> \o PyFormat(color.t[1])
            \o <<";">> \o PyFormat(color.t[2])
            \o <<";">> \o PyFormat(color.t[2]) \o <<"m">>)

escape_codes_color_bg_tuple(color) ==
    IF \E i \in 0..2 : i >= Len(color.t) THEN Raise("IndexError")
    ELSE Ok(<<ESC, "[", "4", "8", ";", "2", ";">> \o PyFormat(color.t[1])
            \o <<";">> \o PyFormat(color.t[2])
            \o <<";">> \o PyFormat(color.t[3]) \o <<"m">>)

escape_codes_color_bg_int(color) ==
    Ok(<<ESC, "[", "4", "8", ";", "5", ";">> \o IntToStr(color.n) \o <<"m">>)

escape_codes_color_bg(color) ==
    CASE color.tag = "str" -> escape_codes_color_bg_str(color)
      [] color.tag = "tuple" -> escape_codes_color_bg_tuple(color)
      [] color.tag = "int" -> escape_codes_color_bg_int(color)
      [] OTHER -> escape_codes_color_bg_default(color)

background_color(args) ==
    IF Len(args) = 1 THEN escape_codes_color_bg(args[1])
    ELSE IF Len(args) = 3 /\ \A i \in 1..3 : args[i].tag = "int"
         THEN escape_codes_color_bg(PyTuple(args))
    ELSE Raise("TypeError")

-----------------------------------------------------------------------------
(* Composition.                                                            *)

\* the foreground argument resolved through foreground_color
color_fg_path(bg_color, fg_color) ==
    LET bg == AndCallOr(bg_color, background_color(<<bg_color>>))
    IN  IF bg.kind # "str" THEN bg
        ELSE LET fg == AndCallOr(fg_color, foreground_color(<<fg_color>>))
             IN  IF fg.kind # "str" THEN fg
                 ELSE Ok(join(<<bg.val, fg.val>>))

color(bg_color, fg_color) ==
    LET bg == AndCallOr(bg_color, background_color(<<bg_color>>))
    IN  IF bg.kind # "str" THEN bg
        ELSE LET fg == AndCallOr(PyStr(bg.val), background_color(<<fg_color>>))
             IN  IF fg.kind # "str" THEN fg
                 ELSE Ok(join(<<bg.val, fg.val>>))

\* thin joined ahead of bold
fontformat_thin_first(bold, thin, italics, underline, strikethrough) ==
    LET b == AndOr(bold, <<ESC, "[", "1", "m">>)
        t == AndOr(thin, <<ESC, "[", "2", "m">>)
        i == AndOr(italics, <<ESC, "[", "3", "m">>)
        u == AndOr(underline, <<ESC, "[", "4", "m">>)
        s == AndOr(strikethrough, <<ESC, "[", "9", "m">>)
    IN  join(<<t, b, i, u, s>>)

fontformat(bold, thin, italics, underline, strikethrough) ==
    LET b == AndOr(bold, <<ESC, "[", "1", "m">>)
        t == AndOr(thin, <<ESC, "[", "2", "m">>)
        i == AndOr(italics, <<ESC, "[", "3", "m">>)
        u == AndOr(underline, <<ESC, "[", "4", "m">>)
        s == AndOr(strikethrough, <<ESC, "[", "9", "m">>)
    IN  join(<<b, t, i, u, s>>)

\* the reset appended only when some code was written
string_formatter_reset_if_formatted(str, bg_color, fg_color, bold, thin, italics, underline, strikethrough) ==
    LET bg == AndCallOr(bg_color, background_color(<<bg_color>>))
    IN  IF bg.kind # "str" THEN bg
        ELSE LET fg == AndCallOr(fg_color, foreground_color(<<fg_color>>))
             IN  IF fg.kind # "str" THEN fg
                 ELSE LET font == fontformat(bold, thin, italics, underline, strikethrough)
                          codes == join(<<bg.val, fg.val, font>>)
                      IN  Ok(join(<<codes, str, IF codes = <<>> THEN <<>> ELSE <<ESC, "[", "0", "m">> >>))

string_formatter(str, bg_color, fg_color, bold, thin, italics, underline, strikethrough) ==
    LET bg == AndCallOr(bg_color, background_color(<<bg_color>>))
    IN  IF bg.kind # "str" THEN bg
        ELSE LET fg == AndCallOr(fg_color, foreground_color(<<fg_color>>))
             IN  IF fg.kind # "str" THEN fg
                 ELSE LET font == fontformat(bold, thin, italics, underline,
                                             strikethrough)
                      IN  Ok(join(<<bg.val, fg.val, font, str,
                                    <<ESC, "[", "0", "m">> >>))

-----------------------------------------------------------------------------
(* The calls explored.                                                     *)

magenta == <<"m", "a", "g", "e", "n", "t", "a">>

\* str(1.5)
OnePointFive == <<"1", ".", "5">>

TextChars == {"X", "m", ESC}

Texts == UNION {[1..k -> TextChars] : k \in 0..MaxTextLen}

AllInts == (0 - MaxInt)..MaxInt

IntSamples == {0 - 1, 0, 7, MaxInt - 1, MaxInt}

NameValues == {PyStr(k) : k \in DOMAIN color_fg}

\* strings that are no colour name
OtherStrings == {PyStr(magenta), PyStr(<<>>)}

MoreStrings == {PyStr(<<"R", "e", "d">>), PyStr(<<"b", "r", "i", "g", "h", "t", "_">>), PyStr(<<"g", "r", "e", "y">>)}

\* elements of the tuples and argument lists of other shapes
ArgElems == {PyInt(0), PyInt(7), PyInt(MaxInt), PyStr(red), PyFloat(OnePointFive)}

Triples == {<<PyInt(r), PyInt(g), PyInt(b)>> : r \in IntSamples, g \in IntSamples, b \in IntSamples}

OtherLists == UNION {[1..k -> ArgElems] : k \in {0, 2, 3, 4}}

\* every value handed to a resolver as its one argument
ColorValues ==
    {PyNone, PyFloat(OnePointFive)} \cup NameValues \cup OtherStrings \cup MoreStrings
        \cup {PyInt(n) : n \in AllInts}
        \cup {PyTuple(t) : t \in Triples \cup OtherLists \cup [1..1 -> ArgElems]}

\* the argument lists of foreground_color(*args) and background_color(*args)
ArgLists == {<<v>> : v \in ColorValues} \cup Triples \cup OtherLists

\* the bg_color and fg_color arguments of string_formatter and color
FormatColors ==
    {PyNone, PyFloat(OnePointFive)} \cup NameValues \cup OtherStrings
        \cup {PyInt(n) : n \in IntSamples}
        \cup {PyTuple(<<>>), PyTuple(<<PyInt(0), PyInt(7)>>),
              PyTuple(<<PyInt(MaxInt - 1), PyInt(0), PyInt(7)>>),
              PyTuple(<<PyInt(0), PyInt(7), PyInt(MaxInt), PyInt(0)>>),
              PyTuple(<<PyStr(red), PyInt(0), PyInt(7)>>)}

NoFlags == [bold |-> FALSE, thin |-> FALSE, italics |-> FALSE, underline |-> FALSE, strikethrough |-> FALSE]

FlagSets == [bold : BOOLEAN, thin : BOOLEAN, italics : BOOLEAN, underline : BOOLEAN, strikethrough : BOOLEAN]

NoResult == [kind |-> "none", val |-> <<>>]

Init ==
    /\ fn = "idle"
    /\ string = <<>>
    /\ argv = <<>>
    /\ flags = NoFlags
    /\ ret = NoResult

call_string_formatter ==
    /\ fn = "idle"
    /\ \E str \in Texts, bg \in FormatColors, fg \in FormatColors, f \in FlagSets :
        /\ fn' = "string_formatter"
        /\ string' = str
        /\ argv' = <<bg, fg>>
        /\ flags' = f
        /\ ret' = string_formatter(str, bg, fg, f.bold, f.thin, f.italics, f.underline, f.strikethrough)

call_foreground_color ==
    /\ fn = "idle"
    /\ \E args \in ArgLists :
        /\ fn' = "foreground_color"
        /\ argv' = args
        /\ ret' = foreground_color(args)
    /\ UNCHANGED <<string, flags>>

call_background_color ==
    /\ fn = "idle"
    /\ \E args \in ArgLists :
        /\ fn' = "background_color"
        /\ argv' = args
        /\ ret' = background_color(args)
    /\ UNCHANGED <<string, flags>>

call_color ==
    /\ fn = "idle"
    /\ \E bg \in FormatColors, fg \in FormatColors :
        /\ fn' = "color"
        /\ argv' = <<bg, fg>>
        /\ ret' = color(bg, fg)
    /\ UNCHANGED <<string, flags>>

call_fontformat ==
    /\ fn = "idle"
    /\ \E f \in FlagSets :
        /\ fn' = "fontformat"
        /\ flags' = f
        /\ ret' = Ok(fontformat(f.bold, f.thin, f.italics, f.underline, f.strikethrough))
    /\ UNCHANGED <<string, argv>>

\* the call is over: nothing of it is kept
Return ==
    /\ fn # "idle"
    /\ fn' = "idle"
    /\ string' = <<>>
    /\ argv' = <<>>
    /\ flags' = NoFlags
    /\ ret' = NoResult

Next ==
    \/ call_string_formatter
    \/ call_foreground_color
    \/ call_background_color
    \/ call_color
    \/ call_fontformat
    \/ Return

Spec == Init /\ [][Next]_vars

-----------------------------------------------------------------------------
(* Reading an escape sequence back: ESC [ p1 ; p2 ; ... m with each        *)
(* parameter a decimal integer written the one canonical way.              *)

DigitValue == ("0" :> 0) @@ ("1" :> 1) @@ ("2" :> 2) @@ ("3" :> 3) @@ ("4" :> 4) @@ ("5" :> 5) @@ ("6" :> 6) @@ ("7" :> 7) @@ ("8" :> 8) @@ ("9" :> 9)

IsNatural(d) ==
    /\ Len(d) >= 1
    /\ \A i \in 1..Len(d) : d[i] \in DOMAIN DigitValue
    /\ (Len(d) > 1 => d[1] # "0")

RECURSIVE NaturalValue(_)
NaturalValue(d) ==
    IF d = <<>> THEN 0
    ELSE 10 * NaturalValue(SubSeq(d, 1, Len(d) - 1)) + DigitValue[d[Len(d)]]

IsDecimal(d) ==
    IF Len(d) >= 1 /\ d[1] = "-"
    THEN IsNatural(Tail(d)) /\ Tail(d) # <<"0">>
    ELSE IsNatural(d)

DecimalValue(d) ==
    IF d[1] = "-" THEN 0 - NaturalValue(Tail(d)) ELSE NaturalValue(d)

RECURSIVE Fields(_)
\* the text between the semicolons
Fields(s) ==
    IF \A i \in 1..Len(s) : s[i] # ";" THEN <<s>>
    ELSE LET k == CHOOSE i \in 1..Len(s) : s[i] = ";" /\ \A j \in 1..(i - 1) : s[j] # ";"
         IN  <<SubSeq(s, 1, k - 1)>> \o Fields(SubSeq(s, k + 1, Len(s)))

\* s is the escape sequence with exactly the parameters params
IsSgr(s, params) ==
    /\ Len(s) >= 4
    /\ s[1] = ESC
    /\ s[2] = "["
    /\ s[Len(s)] = "m"
    /\ LET f == Fields(SubSeq(s, 3, Len(s) - 1))
       IN  /\ Len(f) = Len(params)
           /\ \A i \in 1..Len(f) : IsDecimal(f[i]) /\ DecimalValue(f[i]) = params[i]

Reset == <<ESC, "[", "0", "m">>

BaseNames == <<black, red, green, yellow, blue, purple, cyan, white>>

Bright(name) == <<"b", "r", "i", "g", "h", "t", "_">> \o name

RecognisedNames == {BaseNames[i] : i \in 1..8} \cup {Bright(BaseNames[i]) : i \in 1..8}

\* the position 0..7 of a recognised name's colour
ColourIndex(name) == CHOOSE i \in 0..7 : name \in {BaseNames[i + 1], Bright(BaseNames[i + 1])}

IsIntTriple(t) == Len(t) = 3 /\ \A i \in 1..3 : t[i].tag = "int"

\* a supplied colour spec: a name, a palette index or an RGB triple
IsColourSpec(v) ==
    \/ v.tag = "str" /\ v.s # <<>>
    \/ v.tag = "int" /\ v.n \in 0..255
    \/ v.tag = "tuple" /\ IsIntTriple(v.t)

\* a value that is neither a string, nor one integer, nor a triple of integers
IsOtherShape(v) == ~(v.tag = "str" \/ v.tag = "int" \/ (v.tag = "tuple" /\ IsIntTriple(v.t)))

Resolver(name, args) == IF name = "foreground_color" THEN foreground_color(args) ELSE background_color(args)

Selector(name) == IF name = "foreground_color" THEN 38 ELSE 48

-----------------------------------------------------------------------------
(* The claims.                                                             *)

\* C1 (as stated): string_formatter returns B ++ F ++ S ++ text ++ ESC[0m,
\* where B is background_color(bg_color) whenever bg_color is supplied (a
\* name, a palette index 0..255 with 0 included, or an RGB triple) and empty
\* only when it is omitted, F likewise with foreground_color, S the style
\* codes; it fails exactly when a resolver call on a supplied spec fails.
C1_FormatIsBgFgStyleTextReset ==
    (/\ fn = "string_formatter"
     /\ \A i \in 1..2 : argv[i] = PyNone \/ IsColourSpec(argv[i]))
    => LET B == IF argv[1] = PyNone THEN Ok(<<>>) ELSE background_color(<<argv[1]>>)
           F == IF argv[2] = PyNone THEN Ok(<<>>) ELSE foreground_color(<<argv[2]>>)
           S == fontformat(flags.bold, flags.thin, flags.italics, flags.underline, flags.strikethrough)
       IN  IF B.kind = "str" /\ F.kind = "str"
           THEN ret = Ok(B.val \o F.val \o S \o string \o Reset)
           ELSE ret.kind # "str"

\* C2: every string string_formatter returns ends with ESC[0m with the input
\* text immediately before it, and with no colour and no style flag the
\* result is exactly text ++ ESC[0m.
C2_EndsWithTextThenReset ==
    (fn = "string_formatter" /\ ret.kind = "str")
    => LET n == Len(ret.val)
       IN  /\ n >= Len(string) + 4
           /\ SubSeq(ret.val, n - 3, n) = Reset
           /\ SubSeq(ret.val, n - 3 - Len(string), n - 4) = string
           /\ (argv = <<PyNone, PyNone>> /\ flags = NoFlags => ret.val = string \o Reset)

C2_Witness ==
    /\ fn = "string_formatter"
    /\ string = <<"X">>
    /\ argv = <<PyNone, PyNone>>
    /\ flags = NoFlags
    /\ ret = Ok(<<"X", ESC, "[", "0", "m">>)

\* C3: foreground_color of a recognised name is ESC[{c}m with c = 30..37 for
\* black, red, green, yellow, blue, purple, cyan, white and 90..97 for their
\* bright_ variants, and no other recognised name gives the same sequence.
C3_ForegroundNameCodes ==
    (/\ fn = "foreground_color"
     /\ Len(argv) = 1
     /\ argv[1].tag = "str"
     /\ argv[1].s \in RecognisedNames)
    => LET name == argv[1].s
           base == IF name \in {BaseNames[i] : i \in 1..8} THEN 30 ELSE 90
       IN  /\ ret.kind = "str"
           /\ IsSgr(ret.val, <<base + ColourIndex(name)>>)
           /\ \A other \in RecognisedNames \ {name} : foreground_color(<<PyStr(other)>>) # ret

C3_Witness ==
    /\ fn = "foreground_color"
    /\ argv = <<PyStr(Bright(purple))>>
    /\ ret = Ok(<<ESC, "[", "9", "5", "m">>)

\* C4 (as stated): background_color of each of the 16 recognised names,
\* plain or bright_-prefixed, returns the high-intensity code ESC[{100+i}m
\* of the colour's index i.
C4_BackgroundNamesAllHighIntensity ==
    (/\ fn = "background_color"
     /\ Len(argv) = 1
     /\ argv[1].tag = "str"
     /\ argv[1].s \in RecognisedNames)
    => /\ ret.kind = "str"
       /\ IsSgr(ret.val, <<100 + ColourIndex(argv[1].s)>>)

\* C5: for every integer n, negative or beyond 255 included,
\* foreground_color(n) is ESC[38;5;{n}m and background_color(n) is
\* ESC[48;5;{n}m with n in decimal, and neither call fails.
C5_PaletteIndexVerbatim ==
    (/\ fn \in {"foreground_color", "background_color"}
     /\ Len(argv) = 1
     /\ argv[1].tag = "int")
    => /\ ret.kind = "str"
       /\ IsSgr(ret.val, <<Selector(fn), 5, argv[1].n>>)

C5_Witness ==
    /\ fn = "foreground_color"
    /\ argv = <<PyInt(0 - 1)>>
    /\ ret = Ok(<<ESC, "[", "3", "8", ";", "5", ";", "-", "1", "m">>)

\* C6: for every triple of integers, given as one 3-element tuple or as
\* three arguments, foreground_color is ESC[38;2;{r};{g};{b}m and
\* background_color is ESC[48;2;{r};{g};{b}m, and both call shapes agree.
C6_RgbTriple ==
    (/\ fn \in {"foreground_color", "background_color"}
     /\ \/ Len(argv) = 3 /\ IsIntTriple(argv)
        \/ Len(argv) = 1 /\ argv[1].tag = "tuple" /\ IsIntTriple(argv[1].t))
    => LET t == IF Len(argv) = 3 THEN argv ELSE argv[1].t
       IN  /\ ret.kind = "str"
           /\ IsSgr(ret.val, <<Selector(fn), 2, t[1].n, t[2].n, t[3].n>>)
           /\ ret = Resolver(fn, t)
           /\ ret = Resolver(fn, <<PyTuple(t)>>)

C6_Witness ==
    /\ fn = "background_color"
    /\ argv = <<PyInt(255), PyInt(0), PyInt(7)>>
    /\ ret = Ok(<<ESC, "[", "4", "8", ";", "2", ";", "2", "5", "5", ";", "0", ";", "7", "m">>)

\* C7 (as stated): a colour argument that is neither a name string, nor one
\* integer, nor a triple of integers makes foreground_color,
\* background_color and string_formatter fail with TypeError.
C7_OtherShapeRaisesTypeError ==
    /\ (/\ fn \in {"foreground_color", "background_color"}
        /\ Len(argv) = 1
        /\ IsOtherShape(argv[1]))
       => ret = Raise("TypeError")
    /\ (/\ fn = "string_formatter"
        /\ \E i \in 1..2 : argv[i] # PyNone /\ IsOtherShape(argv[i]))
       => ret = Raise("TypeError")

\* C8: a string that is none of the 16 recognised names makes
\* foreground_color and background_color fail with KeyError.
C8_UnknownNameRaisesKeyError ==
    (/\ fn \in {"foreground_color", "background_color"}
     /\ Len(argv) = 1
     /\ argv[1].tag = "str"
     /\ argv[1].s \notin RecognisedNames)
    => ret = Raise("KeyError")

C8_Witness ==
    /\ fn = "background_color"
    /\ argv = <<PyStr(magenta)>>
    /\ ret = Raise("KeyError")

StyleCode == <<"1", "2", "3", "4", "9">>

RECURSIVE StyleCodesFrom(_, _)
\* the codes of the flags set at positions i..5, in position order
StyleCodesFrom(set, i) ==
    IF i > 5 THEN <<>>
    ELSE (IF set[i] THEN <<ESC, "[", StyleCode[i], "m">> ELSE <<>>) \o StyleCodesFrom(set, i + 1)

\* C9: fontformat returns, in the order bold, thin, italics, underline,
\* strikethrough, ESC[1m, ESC[2m, ESC[3m, ESC[4m, ESC[9m for exactly the
\* flags that are true; nothing at all when none is; and it never fails.
C9_StyleCodesInFixedOrder ==
    fn = "fontformat"
    => /\ ret = Ok(StyleCodesFrom(<<flags.bold, flags.thin, flags.italics, flags.underline, flags.strikethrough>>, 1))
       /\ (flags = NoFlags => ret.val = <<>>)

C9_Witness ==
    /\ fn = "fontformat"
    /\ flags = [bold |-> TRUE, thin |-> TRUE, italics |-> FALSE, underline |-> FALSE, strikethrough |-> TRUE]
    /\ ret = Ok(<<ESC, "[", "1", "m", ESC, "[", "2", "m", ESC, "[", "9", "m">>)

\* C10 (as stated): in color the foreground argument is unreachable: any
\* two values of fg_spec give the same string, and with bg_spec supplied
\* that string is the background sequence of bg_spec twice.  Stated for a
\* bg_spec that is a colour spec other than the index 0 and for calls that
\* return a string, so that a violation rests on nothing but fg_spec.
C10_ForegroundArgumentUnreachable ==
    (/\ fn = "color"
     /\ ret.kind = "str"
     /\ IsColourSpec(argv[1])
     /\ argv[1] # PyInt(0))
    => /\ \A fg \in FormatColors : color(argv[1], fg).kind = "str" => color(argv[1], fg) = ret
       /\ LET B == background_color(<<argv[1]>>)
          IN  ret = Ok(B.val \o B.val)

\* C10 (amended): color returns the empty string when bg_spec is omitted or
\* falsy, whatever fg_spec is; otherwise it returns background_color(bg_spec)
\* followed by background_color(fg_spec) - the foreground argument goes
\* through the background path - and fails when either resolution fails.
C10_ForegroundThroughBackgroundPath ==
    fn = "color"
    => LET B == background_color(<<argv[1]>>)
           F == background_color(<<argv[2]>>)
       IN  IF argv[1] \in {PyNone, PyInt(0), PyStr(<<>>), PyTuple(<<>>)} THEN ret = Ok(<<>>)
           ELSE IF B.kind # "str" THEN ret = B
           ELSE IF F.kind # "str" THEN ret = F
           ELSE ret = Ok(B.val \o F.val)

C10_Witness ==
    /\ fn = "color"
    /\ argv = <<PyStr(red), PyStr(blue)>>
    /\ ret = Ok(<<ESC, "[", "1", "0", "1", "m", ESC, "[", "1", "0", "4", "m">>)

=============================================================================
